---------------------------- MODULE Spec2Model ----------------------------
(***************************************************************************)
(* Audio intake and voice-activity gating of caringmind-gemini-            *)
(* transcription: AudioUploadService (services/audio_upload.py) and         *)
(* AudioValidator (services/audio_validation.py).                           *)
(*                                                                          *)
(* process_upload is an `async def` without any await, so one call runs to  *)
(* its return or raise before the event loop serves the next one: the model *)
(* runs one call at a time, step by step, and keeps the upload directory    *)
(* (files) and the identifier source (nextId) between calls.                *)
(*                                                                          *)
(* External parts are environment choices: libmagic's MIME answer, ffmpeg's *)
(* exit status and output, aplay, file-system errors of open/write, and the *)
(* per-frame answer of webrtcvad (speech, non-speech or an exception).      *)
(***************************************************************************)
EXTENDS Integers, Sequences, FiniteSets, TLC

(***************************************************************************)
(* Bounds of the model.                                                     *)
(***************************************************************************)
\* process_upload calls per behaviour
MaxCalls == 2
\* longest base64 text handed to process_upload
MaxTextLen == 4
\* complete frames in the loud file the converter writes (Spec)
ConvFrames == 5
\* complete frames of the files handed to validate_wav (SpecGate)
MaxFrames == 6
\* complete frames of the buffers whose final ratio is computed (SpecRatio)
MaxTotal == 100

MaxClip == 9

(***************************************************************************)
(* Program constants.                                                       *)
(***************************************************************************)
\* audio_validation.py:41
QuietThreshold == 1000
\* audio_validation.py:45-47: int(16000 * 10 / 1000) * 2 bytes
frame_duration == 10

frame_size == 320
\* audio_validation.py:50
window_size == 5
\* audio_validation.py:66
Majority == 3
\* audio_validation.py:73: the literal 0.08 as the fraction 8/100
RatioNum == 8
RatioDen == 100
\* numpy int16: the range is -2^15 .. 2^15 - 1
Int16Min == -32768

VARIABLES
    \* the upload directory and the identifier source
    files, nextId, calls,
    \* process_upload: position, locals, outcome
    pc, decoded_data, size, file_id, temp_path, wav_path, output_path,
    mime_type, ffmpeg_rc, exc, result, error,
    \* content of the file the converter wrote for the running call
    wavdata,
    \* validate_wav: position, argument, locals, return value
    gpc, audio_path, frames_len, start, total_frames, speech_frames, window,
    gate_result,
    \* get_audio_path: the last lookup and its answer
    lookup,
    \* history: classifier answers of this validate_wav call, steps of this
    \* process_upload call, files it created, storage when it began
    hist, trace, created, pre,
    \* the converter's diagnostic output (result.stderr)
    ffmpeg_stderr,
    \* history: the identifiers handed out so far
    used_ids,
    \* upload_audio: position of the request handler and its HTTP response
    rpc, response,
    \* the answers of the external collaborators when they are fixed for a
    \* whole behaviour, and the outcome of the previous call under them
    oracle, prev

request_vars == <<rpc, response>>

replay_vars == <<oracle, prev>>

upload_vars == <<files, nextId, calls, pc, decoded_data, size, file_id,
                 temp_path, wav_path, output_path, mime_type, ffmpeg_rc, exc,
                 result, error, wavdata, lookup, trace, created, pre,
                 ffmpeg_stderr, used_ids, request_vars, replay_vars>>

gate_locals == <<frames_len, start, total_frames, speech_frames, window, hist>>

gate_vars == <<gpc, audio_path, gate_locals, gate_result>>

vars == <<upload_vars, gate_vars>>

(***************************************************************************)
(* Values.                                                                  *)
(***************************************************************************)
\* Python None for a path / an identifier
NoPath == <<0, "">>

NoId == 0

\* a local that was never assigned (decoded_data on the UTF-8 path)
Unbound == <<-1>>

NoExc == [kind |-> "", msg |-> ""]

\* speech_ratio as a fraction <<numerator, denominator>>; 0.0 is <<0, 1>>
Zero == <<0, 1>>

NoGateResult == [has_speech |-> FALSE, ratio |-> <<0, 0>>]

NoResult == [file_id |-> NoId, size |-> 0, has_speech |-> FALSE, ratio |-> <<0, 0>>]

NoLookup == [file_id |-> NoId, found |-> FALSE]

\* the HTTP response of upload_audio; status 0 while there is none
Response(status, id, sz, valid, analysis) ==
    [status |-> status, file_id |-> id, size |-> sz, is_valid |-> valid,
     analysis |-> analysis]

NoResponse == Response(0, NoId, 0, FALSE, FALSE)

\* what a process_upload call ended with
Outcome(kind, id, sz, has_speech, ratio) ==
    [kind |-> kind, file_id |-> id, size |-> sz, has_speech |-> has_speech,
     ratio |-> ratio]

NoPrev == Outcome("", NoId, 0, FALSE, <<0, 0>>)

\* a file that is no RIFF/WAV container, or no file at all
NoWav == [valid |-> FALSE, nchannels |-> 0, sampwidth |-> 0, framerate |-> 0,
          nbytes |-> 0, vals |-> {}]

\* a WAV file: header fields, byte length of its data, and the set of sample
\* values that occur in it (all that np.max(np.abs(..)) depends on)
Wav(ch, sw, fr, n, vs) ==
    [valid |-> TRUE, nchannels |-> ch, sampwidth |-> sw, framerate |-> fr,
     nbytes |-> n, vals |-> vs]

Canonical(n, vs) == Wav(1, 2, 16000, n, vs)

(***************************************************************************)
(* validate_wav: pure parts.                                                *)
(***************************************************************************)
Max(S) == CHOOSE x \in S : \A y \in S : y <= x

Min2First(a, b) == a

\* len(frames[start:start + frame_size]) is min(frame_size, len - start)
Min2(a, b) == IF a < b THEN a ELSE b

\* np.abs on an int16 array: -32768 has no positive counterpart and wraps
Abs16(s) == IF s = Int16Min THEN Int16Min ELSE IF s < 0 THEN -s ELSE s

\* np.max(np.abs(audio_data)), audio_data not empty
PeakAbs(vs) == Max({Abs16(s) : s \in vs})

TooQuietLow(vs) == PeakAbs(vs) < 500

\* line 41
TooQuiet(vs) == PeakAbs(vs) < QuietThreshold

IsCanonicalFormat(w) ==
    w.nchannels = 1 /\ w.sampwidth = 2 /\ w.framerate = 16000

\* sum(window)
RECURSIVE SumWindow(_)
SumWindow(w) == IF w = <<>> THEN 0
                ELSE (IF Head(w) THEN 1 ELSE 0) + SumWindow(Tail(w))

\* lines 62-64: append, then drop the oldest once there are more than five
PushWindowNoPop(w, is_speech) == Append(w, is_speech)

PushWindow(w, is_speech) ==
    LET a == Append(w, is_speech)
    IN  IF Len(a) > window_size THEN Tail(a) ELSE a

CountsAsSpeechRaw(w) == Len(w) >= 1 /\ w[Len(w)]

\* line 66
CountsAsSpeechEarly(w) == SumWindow(w) >= Majority

CountsAsSpeech(w) == Len(w) = window_size /\ SumWindow(w) >= Majority

NextSpeechSum(speech, w) == speech + SumWindow(w)

\* lines 66-67
NextSpeech(speech, w) == IF CountsAsSpeech(w) THEN speech + 1 ELSE speech

\* line 72, as a fraction
SpeechRatio(speech, total) == IF total > 0 THEN <<speech, total>> ELSE Zero

HasSpeechGeq(ratio) == ratio[1] * RatioDen >= RatioNum * ratio[2]

\* line 73: speech_ratio > 0.08. The quotient of two frame counts is the
\* double nearest to the exact fraction and 0.08 is the double nearest to
\* 8/100, so for frame counts far below 2^53 the float comparison agrees
\* with the comparison of the exact fractions.
HasSpeech(ratio) == ratio[1] * RatioDen > RatioNum * ratio[2]

GateReturn(has_speech, ratio) == [has_speech |-> has_speech, ratio |-> ratio]

(***************************************************************************)
(* process_upload: pure parts.                                              *)
(***************************************************************************)
\* value of a character of the base64 alphabet
B64Val == [c \in {"A", "/"} |-> IF c = "A" THEN 0 ELSE 63]

B64Pad == "="

\* characters of the texts: a base64 digit, the pad, and an ASCII character
\* outside the alphabet; "U+00E9" stands for a character outside ASCII
TextChars == {"A", "=", "!"}

IsAscii(text) == \A i \in 1..Len(text) : text[i] # "U+00E9"

\* binascii.a2b_base64 as b64decode calls it (validate=False): characters
\* outside the alphabet are skipped, a completed pad sequence ends the
\* input, and data left in an unfinished quad is an error
RECURSIVE A2B(_, _, _, _, _, _)
A2B(text, i, quad_pos, leftchar, pads, out) ==
    IF i > Len(text)
    THEN [ok |-> quad_pos = 0, bytes |-> out]
    ELSE LET ch == text[i]
         IN  IF ch = B64Pad
             THEN IF quad_pos >= 2 /\ quad_pos + pads + 1 >= 4
                  THEN [ok |-> TRUE, bytes |-> out]
                  ELSE A2B(text, i + 1, quad_pos, leftchar,
                           IF quad_pos >= 2 THEN pads + 1 ELSE pads, out)
             ELSE IF ch \notin DOMAIN B64Val
             THEN A2B(text, i + 1, quad_pos, leftchar, pads, out)
             ELSE LET v == B64Val[ch]
                  IN  CASE quad_pos = 0 ->
                             A2B(text, i + 1, 1, v, 0, out)
                        [] quad_pos = 1 ->
                             A2B(text, i + 1, 2, v % 16, 0,
                                 Append(out, leftchar * 4 + v \div 16))
                        [] quad_pos = 2 ->
                             A2B(text, i + 1, 3, v % 4, 0,
                                 Append(out, leftchar * 16 + v \div 4))
                        [] OTHER ->
                             A2B(text, i + 1, 0, 0, 0,
                                 Append(out, leftchar * 64 + v))

\* line 39: base64.b64decode(audio_data)
B64Decode(text) == A2B(text, 1, 0, 0, 0, <<>>)

\* bytes.decode('utf-8') succeeds: one-byte and two-byte sequences
RECURSIVE Utf8Valid(_)
Utf8Valid(b) ==
    IF b = <<>> THEN TRUE
    ELSE IF b[1] < 128 THEN Utf8Valid(Tail(b))
    ELSE IF b[1] >= 194 /\ b[1] <= 223 /\ Len(b) >= 2
            /\ b[2] >= 128 /\ b[2] <= 191
         THEN Utf8Valid(Tail(Tail(b)))
    ELSE FALSE

RECURSIVE SeqsUpTo(_, _)
SeqsUpTo(S, n) ==
    IF n = 0 THEN {<<>>}
    ELSE LET shorter == SeqsUpTo(S, n - 1)
         IN  shorter \cup {Append(t, c) : t \in shorter, c \in S}

\* what a caller can hand to process_upload: a str or a bytes object
StrInputs ==
    {[type |-> "str", data |-> t] :
       t \in SeqsUpTo(TextChars, MaxTextLen) \cup {<<"U+00E9">>, <<"A", "U+00E9">>}}

BytesInputs == {[type |-> "bytes", data |-> b] :
                  b \in {<<>>, <<65, 65, 61, 61>>, <<195, 169>>, <<195>>}}

Inputs == StrInputs \cup BytesInputs

\* lines 14-21: MIME type -> extension
SUPPORTED_MIME_TYPES ==
    [m \in {"audio/wav", "audio/mp3", "audio/aiff", "audio/aac", "audio/ogg",
            "audio/flac"} |->
       CASE m = "audio/wav" -> "wav"
         [] m = "audio/mp3" -> "mp3"
         [] m = "audio/aiff" -> "aiff"
         [] m = "audio/aac" -> "aac"
         [] m = "audio/ogg" -> "ogg"
         [] OTHER -> "flac"]

\* answers of libmagic the model draws from (audio/mpeg is its name for mp3)
MimeAnswers == {"audio/wav", "audio/ogg", "audio/mpeg"}

\* what ffmpeg writes on exit status 0: -acodec pcm_s16le -ac 1 -ar 16000
\* makes the file canonical; its length and samples depend on the input
ConvOutputs ==
    {Canonical(0, {}),
     Canonical(ConvFrames * frame_size, {0, -999}),
     Canonical(ConvFrames * frame_size, {0, 1000})}

Path(id, ext) == <<id, ext>>

Exc(kind, msg) == [kind |-> kind, msg |-> msg]

CleanupRawOnly(fs, tp, wp) == fs \ {tp}

CleanupAll(fs, tp, wp) == {}

\* lines 103-105: unlink temp_path and wav_path where set and present
Cleanup(fs, tp, wp) == fs \ {tp, wp}

DropAccepted(fs, tp, wp, has_speech) == IF has_speech THEN fs \ {tp, wp} ELSE fs

DropRejected(fs, tp, wp, has_speech) == IF has_speech THEN fs ELSE fs \ {tp, wp}

\* lines 94-96: a rejected upload is logged and its files are kept
KeepFiles(fs, tp, wp, has_speech) == fs

\* line 106: raise ValueError(str(e))
Reraise(e) == Exc("ValueError", e.msg)

\* what ffmpeg prints on its diagnostic stream when it exits non-zero
StderrTexts == {"Invalid data found when processing input", "Conversion failed!"}

\* an outcome of subprocess.run(['ffmpeg', ..]) at lines 60-69
ConvChoice(kind, w, partial, text) ==
    [kind |-> kind, wav |-> w, partial |-> partial, stderr |-> text]

\* an outcome of lines 86-87
DebugChoice(on, started) == [on |-> on, started |-> started]

\* the collaborators left free: every step draws its own answer
FreeOracle ==
    [free |-> TRUE, input |-> [type |-> "str", data |-> <<>>], mkdir |-> TRUE,
     raw |-> "ok", mime |-> "", conv |-> ConvChoice("ok", NoWav, FALSE, ""),
     keep |-> "ok", debug |-> DebugChoice(FALSE, TRUE), vad |-> <<>>]

\* the answer a collaborator gives is the fixed one, when answers are fixed
Env(field, answer) == oracle.free \/ oracle[field] = answer

\* the answer of vad.is_speech for the i-th whole frame
VadIs(i, a) == oracle.free \/ (i <= Len(oracle.vad) /\ oracle.vad[i] = a)

InputIs(audio_data) ==
    \/ oracle.free
    \/ /\ audio_data.type = oracle.input.type
       /\ audio_data.data = oracle.input.data

Uuid4Fixed(n) == 1

\* line 47: str(uuid.uuid4()), the n-th identifier drawn
Uuid4(n) == n

(***************************************************************************)
(* process_upload: steps.                                                   *)
(***************************************************************************)
RaiseRetry(e) ==
    /\ exc' = e
    /\ pc' = IF pc = "converting" THEN "convert" ELSE "except"

RaiseIgnored(e) ==
    /\ exc' = e
    /\ pc' = "debug"

\* an exception raised inside the try of lines 28-98 reaches line 100
Raise(e) ==
    /\ exc' = e
    /\ pc' = "except"

FreshGateStale ==
    /\ gpc' = "off"
    /\ audio_path' = NoPath
    /\ frames_len' = 0
    /\ start' = 0
    /\ total_frames' = 0
    /\ speech_frames' = speech_frames
    /\ window' = <<>>
    /\ hist' = <<>>
    /\ gate_result' = NoGateResult

FreshGate ==
    /\ gpc' = "off"
    /\ audio_path' = NoPath
    /\ frames_len' = 0
    /\ start' = 0
    /\ total_frames' = 0
    /\ speech_frames' = 0
    /\ window' = <<>>
    /\ hist' = <<>>
    /\ gate_result' = NoGateResult

\* lines 25-42: a new call; temp_path = wav_path = None; the input is decoded
Decode(audio_data) ==
    /\ pc \in {"idle", "returned", "failed"}
    /\ rpc \in {"idle", "done"}
    /\ calls < MaxCalls
    /\ InputIs(audio_data)
    /\ rpc' = "upload"
    /\ response' = NoResponse
    /\ ffmpeg_stderr' = ""
    /\ prev' = IF oracle.free THEN NoPrev
               ELSE IF pc = "returned"
               THEN Outcome("returned", result.file_id, result.size,
                            result.has_speech, result.ratio)
               ELSE IF pc = "failed"
               THEN Outcome("failed", file_id, 0, FALSE, <<0, 0>>)
               ELSE NoPrev
    /\ calls' = calls + 1
    /\ pre' = [files |-> files, nextId |-> nextId]
    /\ created' = {}
    /\ trace' = <<"decode">>
    /\ lookup' = NoLookup
    /\ temp_path' = NoPath
    /\ wav_path' = NoPath
    /\ output_path' = NoPath
    /\ size' = 0
    /\ file_id' = NoId
    /\ mime_type' = ""
    /\ ffmpeg_rc' = -1
    /\ result' = NoResult
    /\ error' = NoExc
    /\ wavdata' = NoWav
    /\ FreshGate
    /\ IF audio_data.type = "bytes"
       THEN \* lines 30-36: valid UTF-8 rebinds audio_data and leaves
            \* decoded_data unassigned
            /\ decoded_data' = IF Utf8Valid(audio_data.data)
                               THEN Unbound ELSE audio_data.data
            /\ exc' = NoExc
            /\ pc' = "size"
       ELSE IF ~IsAscii(audio_data.data)
       THEN \* b64decode encodes the str to ASCII first; its ValueError is
            \* not caught at line 40 and reaches line 100
            /\ decoded_data' = Unbound
            /\ Raise(Exc("ValueError",
                         "string argument should contain only ASCII characters"))
       ELSE IF ~B64Decode(audio_data.data).ok
       THEN \* lines 40-42
            /\ decoded_data' = Unbound
            /\ Raise(Exc("ValueError", "Invalid audio data format"))
       ELSE /\ decoded_data' = B64Decode(audio_data.data).bytes
            /\ exc' = NoExc
            /\ pc' = "size"
    /\ UNCHANGED <<files, nextId, used_ids, oracle>>

\* lines 44-47: len(decoded_data), mkdir, uuid4. uuid4 is modelled as a
\* source of identifiers that never repeats.
Prepare ==
    /\ pc = "size"
    /\ IF decoded_data = Unbound
       THEN /\ Raise(Exc("UnboundLocalError", "decoded_data"))
            /\ UNCHANGED <<size, file_id, nextId, used_ids>>
       ELSE /\ size' = Len(decoded_data)
            /\ \/ /\ Env("mkdir", TRUE)
                  /\ file_id' = Uuid4(nextId)
                  /\ nextId' = nextId + 1
                  /\ used_ids' = used_ids \cup {file_id'}
                  /\ pc' = "write_raw"
                  /\ UNCHANGED exc
               \/ /\ Env("mkdir", FALSE)
                  /\ Raise(Exc("OSError", "mkdir"))
                  /\ UNCHANGED <<file_id, nextId, used_ids>>
    /\ UNCHANGED <<files, calls, decoded_data, temp_path, wav_path,
                   output_path, mime_type, ffmpeg_rc, result, error, wavdata,
                   lookup, trace, created, pre, ffmpeg_stderr,
                   request_vars, replay_vars, gate_vars>>

\* open(path, "wb") then f.write(..): both succeed, open fails (no file),
\* or write fails (the file exists, truncated)
WriteOutcomes == {"ok", "open_fails", "write_fails"}

\* lines 50-52
WriteRaw ==
    /\ pc = "write_raw"
    /\ temp_path' = Path(file_id, "raw")
    /\ trace' = Append(trace, "write_raw")
    /\ \E o \in WriteOutcomes :
         /\ Env("raw", o)
         /\ IF o = "open_fails"
            THEN UNCHANGED <<files, created>>
            ELSE /\ files' = files \cup {temp_path'}
                 /\ created' = created \cup {temp_path'}
         /\ IF o = "ok"
            THEN pc' = "detect" /\ UNCHANGED exc
            ELSE Raise(Exc("OSError", "write"))
    /\ UNCHANGED <<nextId, calls, decoded_data, size, file_id, wav_path,
                   output_path, mime_type, ffmpeg_rc, result, error, wavdata,
                   lookup, pre, ffmpeg_stderr, used_ids,
                   request_vars, replay_vars, gate_vars>>

\* lines 55-56 and 128-132
DetectMimeConvert ==
    /\ pc = "detect"
    /\ trace' = Append(trace, "detect")
    /\ \/ \E m \in MimeAnswers :
            /\ Env("mime", m)
            /\ mime_type' = m
            /\ pc' = "convert"
            /\ UNCHANGED exc
       \/ /\ Env("mime", "raise")
          /\ Raise(Exc("ImportError", "magic"))
          /\ UNCHANGED mime_type
    /\ UNCHANGED <<files, nextId, calls, decoded_data, size, file_id,
                   temp_path, wav_path, output_path, ffmpeg_rc, result, error,
                   wavdata, lookup, created, pre, ffmpeg_stderr, used_ids,
                   request_vars, replay_vars, gate_vars>>

DetectMime ==
    /\ pc = "detect"
    /\ trace' = Append(trace, "detect")
    /\ \/ \E m \in MimeAnswers :
            /\ Env("mime", m)
            /\ mime_type' = m
            /\ pc' = IF m \in DOMAIN SUPPORTED_MIME_TYPES THEN "keep" ELSE "convert"
            /\ UNCHANGED exc
       \/ /\ Env("mime", "raise")
          /\ Raise(Exc("ImportError", "magic"))
          /\ UNCHANGED mime_type
    /\ UNCHANGED <<files, nextId, calls, decoded_data, size, file_id,
                   temp_path, wav_path, output_path, ffmpeg_rc, result, error,
                   wavdata, lookup, created, pre, ffmpeg_stderr, used_ids,
                   request_vars, replay_vars, gate_vars>>

\* lines 58-60: wav_path is set and subprocess.run starts ffmpeg; the call
\* blocks in subprocess.run until the child has exited
StartConvert ==
    /\ pc = "convert"
    /\ pc' = "converting"
    /\ wav_path' = Path(file_id, "wav")
    /\ trace' = Append(trace, "convert")
    /\ UNCHANGED <<files, nextId, calls, decoded_data, size, file_id,
                   temp_path, output_path, mime_type, ffmpeg_rc, exc, result,
                   error, wavdata, lookup, created, pre, ffmpeg_stderr,
                   used_ids, request_vars, replay_vars, gate_vars>>

\* lines 60-77: ffmpeg exits 0 and has written the file, exits non-zero
\* (with or without a partial output file), or cannot be started
Convert ==
    /\ pc = "converting"
    /\ \/ \E w \in ConvOutputs :
            /\ Env("conv", ConvChoice("ok", w, FALSE, ""))
            /\ ffmpeg_rc' = 0
            /\ wavdata' = w
            /\ files' = files \cup {wav_path}
            /\ created' = created \cup {wav_path}
            /\ pc' = "debug"
            /\ UNCHANGED <<exc, ffmpeg_stderr>>
       \/ \E partial \in BOOLEAN, text \in StderrTexts :
            /\ Env("conv", ConvChoice("nonzero", NoWav, partial, text))
            /\ ffmpeg_rc' = 1
            /\ ffmpeg_stderr' = text
            /\ IF partial
               THEN /\ files' = files \cup {wav_path}
                    /\ created' = created \cup {wav_path}
               ELSE UNCHANGED <<files, created>>
            /\ Raise(Exc("ValueError", "Audio conversion failed"))
            /\ UNCHANGED wavdata
       \/ /\ Env("conv", ConvChoice("oserror", NoWav, FALSE, ""))
          /\ Raise(Exc("FileNotFoundError", "ffmpeg"))
          /\ UNCHANGED <<ffmpeg_rc, ffmpeg_stderr, wavdata, files, created>>
    /\ UNCHANGED <<nextId, calls, decoded_data, size, file_id, temp_path,
                   wav_path, output_path, mime_type, result, error, lookup,
                   trace, pre, used_ids, request_vars, replay_vars,
                   gate_vars>>

\* lines 80-83: the payload is written once more as <id>.<ext>; wav_path
\* stays None
KeepOriginal ==
    /\ pc = "keep"
    /\ output_path' = Path(file_id, SUPPORTED_MIME_TYPES[mime_type])
    /\ trace' = Append(trace, "keep")
    /\ \E o \in WriteOutcomes :
         /\ Env("keep", o)
         /\ IF o = "open_fails"
            THEN UNCHANGED <<files, created>>
            ELSE /\ files' = files \cup {output_path'}
                 /\ created' = created \cup {output_path'}
         /\ IF o = "ok"
            THEN pc' = "debug" /\ UNCHANGED exc
            ELSE Raise(Exc("OSError", "write"))
    /\ UNCHANGED <<nextId, calls, decoded_data, size, file_id, temp_path,
                   wav_path, mime_type, ffmpeg_rc, result, error, wavdata,
                   lookup, pre, ffmpeg_stderr, used_ids,
                   request_vars, replay_vars, gate_vars>>

\* lines 86-87: with DEBUG_AUDIO=1 aplay is run; its exit status is ignored,
\* but subprocess.run raises when aplay cannot be started
DebugPlayback ==
    /\ pc = "debug"
    /\ \E debug_audio \in BOOLEAN, started \in BOOLEAN :
         /\ Env("debug", DebugChoice(debug_audio, started))
         /\ IF ~debug_audio
            THEN /\ started
                 /\ pc' = "validate"
                 /\ UNCHANGED exc
            ELSE IF started
                 THEN pc' = "validate" /\ UNCHANGED exc
                 ELSE Raise(Exc("FileNotFoundError", "aplay"))
    /\ UNCHANGED <<files, nextId, calls, decoded_data, size, file_id,
                   temp_path, wav_path, output_path, mime_type, ffmpeg_rc,
                   result, error, wavdata, lookup, trace, created, pre, ffmpeg_stderr, used_ids,
                   request_vars, replay_vars,
                   gate_vars>>

\* lines 90-91: validator.validate_wav(wav_path) is entered
CallValidate ==
    /\ pc = "validate"
    /\ pc' = "validating"
    /\ trace' = Append(trace, "gate")
    /\ gpc' = "open"
    /\ audio_path' = wav_path
    /\ UNCHANGED <<files, nextId, calls, decoded_data, size, file_id,
                   temp_path, wav_path, output_path, mime_type, ffmpeg_rc,
                   exc, result, error, wavdata, lookup, created, pre, ffmpeg_stderr, used_ids,
                   request_vars, replay_vars,
                   gate_locals, gate_result>>

\* lines 91-98: validate_wav has returned; the tuple is returned
Return ==
    /\ pc = "validating"
    /\ gpc = "done"
    /\ result' = [file_id |-> file_id, size |-> size,
                  has_speech |-> gate_result.has_speech,
                  ratio |-> gate_result.ratio]
    /\ pc' = "returned"
    /\ trace' = Append(trace, "return")
    /\ files' = KeepFiles(files, temp_path, wav_path, gate_result.has_speech)
    /\ FreshGate
    /\ UNCHANGED <<nextId, calls, decoded_data, size, file_id,
                   temp_path, wav_path, output_path, mime_type, ffmpeg_rc,
                   exc, error, wavdata, lookup, created, pre, ffmpeg_stderr, used_ids,
                   request_vars, replay_vars>>

\* lines 100-106
Except ==
    /\ pc = "except"
    /\ files' = Cleanup(files, temp_path, wav_path)
    /\ error' = Reraise(exc)
    /\ pc' = "failed"
    /\ trace' = Append(trace, "raise")
    /\ UNCHANGED <<nextId, calls, decoded_data, size, file_id, temp_path,
                   wav_path, output_path, mime_type, ffmpeg_rc, exc, result,
                   wavdata, lookup, created, pre, ffmpeg_stderr, used_ids,
                   request_vars, replay_vars, gate_vars>>

GetAudioPathAlways(id) ==
    /\ pc \in {"idle", "returned", "failed"}
    /\ rpc \in {"idle", "done"}
    /\ lookup' = [file_id |-> id, found |-> TRUE]
    /\ UNCHANGED <<files, nextId, calls, pc, decoded_data, size, file_id,
                   temp_path, wav_path, output_path, mime_type, ffmpeg_rc,
                   exc, result, error, wavdata, trace, created, pre,
                   ffmpeg_stderr, used_ids, request_vars, replay_vars,
                   gate_vars>>

\* lines 108-115, called between process_upload calls
GetAudioPath(id) ==
    /\ pc \in {"idle", "returned", "failed"}
    /\ rpc \in {"idle", "done"}
    /\ lookup' = [file_id |-> id, found |-> Path(id, "wav") \in files]
    /\ UNCHANGED <<files, nextId, calls, pc, decoded_data, size, file_id,
                   temp_path, wav_path, output_path, mime_type, ffmpeg_rc,
                   exc, result, error, wavdata, trace, created, pre, ffmpeg_stderr, used_ids,
                   request_vars, replay_vars,
                   gate_vars>>

(***************************************************************************)
(* upload_audio: the endpoint around process_upload.                        *)
(***************************************************************************)
IsValidAlways(r) == TRUE

\* line 130: is_valid is the third element of the returned tuple
IsValid(r) == r.has_speech

\* what the analysis collaborators of lines 139-210 can do
AnalyseOutcomes == {"open_fails", "chat_fails", "analysis_fails", "ok"}

\* lines 134-136: early return for audio that is not valid
RouterReject ==
    /\ rpc = "upload"
    /\ pc = "returned"
    /\ ~IsValid(result)
    /\ response' = Response(200, NoId, result.size, FALSE, FALSE)
    /\ rpc' = "done"
    /\ UNCHANGED <<files, nextId, calls, pc, decoded_data, size, file_id,
                   temp_path, wav_path, output_path, mime_type, ffmpeg_rc,
                   exc, result, error, wavdata, lookup, trace, created, pre,
                   ffmpeg_stderr, used_ids, replay_vars, gate_vars>>

\* line 138: get_audio_path(file_id); FileNotFoundError goes to line 211
RouterLookup ==
    /\ rpc = "upload"
    /\ pc = "returned"
    /\ IsValid(result)
    /\ lookup' = [file_id |-> result.file_id,
                  found |-> Path(result.file_id, "wav") \in files]
    /\ trace' = Append(trace, "lookup")
    /\ IF lookup'.found
       THEN /\ rpc' = "read"
            /\ UNCHANGED response
       ELSE /\ rpc' = "done"
            /\ response' = Response(400, NoId, 0, FALSE, FALSE)
    /\ UNCHANGED <<files, nextId, calls, pc, decoded_data, size, file_id,
                   temp_path, wav_path, output_path, mime_type, ffmpeg_rc,
                   exc, result, error, wavdata, created, pre,
                   ffmpeg_stderr, used_ids, replay_vars, gate_vars>>

\* lines 139-210: the artifact is read and handed to the analysis service
RouterAnalyse ==
    /\ rpc = "read"
    /\ rpc' = "done"
    /\ \E o \in AnalyseOutcomes :
         /\ trace' = IF o = "open_fails"
                      THEN Append(trace, "read")
                      ELSE trace \o <<"read", "analyse">>
         /\ response' =
              IF o \in {"open_fails", "chat_fails"}
              THEN Response(400, NoId, 0, FALSE, FALSE)
              ELSE Response(200, result.file_id, result.size, TRUE, o = "ok")
    /\ UNCHANGED <<files, nextId, calls, pc, decoded_data, size, file_id,
                   temp_path, wav_path, output_path, mime_type, ffmpeg_rc,
                   exc, result, error, wavdata, lookup, created, pre,
                   ffmpeg_stderr, used_ids, replay_vars, gate_vars>>

\* lines 211-213: whatever process_upload raised becomes a 400
RouterError ==
    /\ rpc = "upload"
    /\ pc = "failed"
    /\ response' = Response(400, NoId, 0, FALSE, FALSE)
    /\ rpc' = "done"
    /\ UNCHANGED <<files, nextId, calls, pc, decoded_data, size, file_id,
                   temp_path, wav_path, output_path, mime_type, ffmpeg_rc,
                   exc, result, error, wavdata, lookup, trace, created, pre,
                   ffmpeg_stderr, used_ids, replay_vars, gate_vars>>

(***************************************************************************)
(* validate_wav: steps.                                                     *)
(***************************************************************************)
\* line 18: wave.open(str(audio_path)); str(None) names no file, and a
\* file that is no WAV container raises too (caught at lines 79-81)
WaveOpen ==
    /\ gpc = "open"
    /\ IF audio_path = NoPath \/ audio_path \notin files \/ ~wavdata.valid
       THEN /\ gpc' = "done"
            /\ gate_result' = GateReturn(FALSE, Zero)
       ELSE /\ gpc' = "format"
            /\ UNCHANGED gate_result
    /\ UNCHANGED <<upload_vars, audio_path, gate_locals>>

\* lines 26-34
CheckFormat ==
    /\ gpc = "format"
    /\ IF IsCanonicalFormat(wavdata)
       THEN /\ gpc' = "volume"
            /\ UNCHANGED gate_result
       ELSE /\ gpc' = "done"
            /\ gate_result' = GateReturn(FALSE, Zero)
    /\ UNCHANGED <<upload_vars, audio_path, gate_locals>>

\* lines 37-54: read the frames, the quietness check, the loop's locals.
\* np.max of an empty array raises ValueError, caught at lines 79-81.
CheckVolume ==
    /\ gpc = "volume"
    /\ frames_len' = wavdata.nbytes
    /\ IF wavdata.nbytes = 0 \/ TooQuiet(wavdata.vals)
       THEN /\ gpc' = "done"
            /\ gate_result' = GateReturn(FALSE, Zero)
       ELSE /\ gpc' = "loop"
            /\ UNCHANGED gate_result
    /\ UNCHANGED <<upload_vars, audio_path, start, total_frames,
                   speech_frames, window, hist>>

VadAnswers == {"speech", "nonspeech", "error"}

LoopIterAbort ==
    /\ gpc = "loop"
    /\ start < frames_len
    /\ start' = start + frame_size
    /\ IF Min2(frame_size, frames_len - start) = frame_size
       THEN /\ total_frames' = total_frames + 1
            /\ \E a \in VadAnswers :
                 /\ VadIs(total_frames + 1, a)
                 /\ hist' = Append(hist, a)
                 /\ IF a = "error"
                    THEN /\ gpc' = "done"
                         /\ gate_result' = GateReturn(FALSE, Zero)
                         /\ UNCHANGED <<window, speech_frames>>
                    ELSE /\ window' = PushWindow(window, a = "speech")
                         /\ speech_frames' = NextSpeech(speech_frames, window')
                         /\ UNCHANGED <<gpc, gate_result>>
       ELSE UNCHANGED <<total_frames, speech_frames, window, hist, gpc,
                        gate_result>>
    /\ UNCHANGED <<upload_vars, audio_path, frames_len>>

\* lines 56-70: one iteration of the loop over range(0, len(frames), 320)
LoopIter ==
    /\ gpc = "loop"
    /\ start < frames_len
    /\ start' = start + frame_size
    /\ IF Min2(frame_size, frames_len - start) = frame_size
       THEN /\ total_frames' = total_frames + 1
            /\ \E a \in VadAnswers :
                 /\ VadIs(total_frames + 1, a)
                 /\ hist' = Append(hist, a)
                 /\ IF a = "error"
                    THEN UNCHANGED <<window, speech_frames>>
                    ELSE /\ window' = PushWindow(window, a = "speech")
                         /\ speech_frames' = NextSpeech(speech_frames, window')
       ELSE UNCHANGED <<total_frames, speech_frames, window, hist>>
    /\ UNCHANGED <<upload_vars, gpc, audio_path, frames_len, gate_result>>

\* lines 72-77
ComputeRatio ==
    /\ gpc = "loop"
    /\ start >= frames_len
    /\ gpc' = "done"
    /\ gate_result' =
         LET speech_ratio == SpeechRatio(speech_frames, total_frames)
         IN  GateReturn(HasSpeech(speech_ratio), speech_ratio)
    /\ UNCHANGED <<upload_vars, audio_path, gate_locals>>

(***************************************************************************)
(* Specifications.                                                          *)
(***************************************************************************)
IdleUpload ==
    /\ nextId = 1
    /\ calls = 0
    /\ pc = "idle"
    /\ decoded_data = Unbound
    /\ size = 0
    /\ file_id = NoId
    /\ temp_path = NoPath
    /\ wav_path = NoPath
    /\ output_path = NoPath
    /\ mime_type = ""
    /\ ffmpeg_rc = -1
    /\ exc = NoExc
    /\ result = NoResult
    /\ error = NoExc
    /\ lookup = NoLookup
    /\ trace = <<>>
    /\ created = {}
    /\ ffmpeg_stderr = ""
    /\ used_ids = {}
    /\ rpc = "idle"
    /\ response = NoResponse
    /\ prev = NoPrev

IdleGate ==
    /\ frames_len = 0
    /\ start = 0
    /\ total_frames = 0
    /\ speech_frames = 0
    /\ window = <<>>
    /\ hist = <<>>
    /\ gate_result = NoGateResult

\* the service after start-up: an empty upload directory, no call yet
Init ==
    /\ IdleUpload
    /\ IdleGate
    /\ files = {}
    /\ pre = [files |-> {}, nextId |-> 1]
    /\ wavdata = NoWav
    /\ gpc = "off"
    /\ audio_path = NoPath
    /\ oracle = FreeOracle

GateNext ==
    \/ WaveOpen
    \/ CheckFormat
    \/ CheckVolume
    \/ LoopIter
    \/ ComputeRatio

\* line 130 of the endpoint: a request enters process_upload
StartCall == \E audio_data \in Inputs : Decode(audio_data)

Next ==
    \/ StartCall
    \/ Prepare
    \/ WriteRaw
    \/ DetectMime
    \/ StartConvert
    \/ Convert
    \/ KeepOriginal
    \/ DebugPlayback
    \/ CallValidate
    \/ WaveOpen
    \/ CheckFormat
    \/ CheckVolume
    \/ LoopIter
    \/ ComputeRatio
    \/ Return
    \/ Except
    \/ RouterReject
    \/ RouterLookup
    \/ RouterAnalyse
    \/ RouterError
    \/ \E id \in 1..MaxCalls : GetAudioPath(id)

Spec == Init /\ [][Next]_vars

\* sample values the files of SpecGate are made of
SampleVals == {0, -999, 1000, Int16Min}

\* byte lengths: whole frames, with and without a partial frame behind them
GateLengths == {f * frame_size + r : f \in 0..MaxFrames, r \in {0, frame_size - 2}}

\* the files validate_wav is handed: no WAV file, the three non-canonical
\* headers, and canonical files of every length and sample content
GateWavs ==
    {NoWav, Wav(2, 2, 16000, 4, {0}), Wav(1, 1, 16000, 1, {0}),
     Wav(1, 2, 8000, 2, {0})}
    \cup {Canonical(0, {})}
    \cup {Canonical(n, vs) : n \in GateLengths \ {0},
                             vs \in (SUBSET SampleVals) \ {{}}}

\* validate_wav called on a file of the upload directory, or on None
InitGate ==
    /\ IdleUpload
    /\ IdleGate
    /\ files = {Path(1, "wav")}
    /\ pre = [files |-> files, nextId |-> 1]
    /\ wavdata \in GateWavs
    /\ gpc = "open"
    /\ audio_path \in {Path(1, "wav"), NoPath}
    /\ oracle = FreeOracle

SpecGate == InitGate /\ [][GateNext]_vars

\* classifier answers that leave validate_wav's loop with the given counts:
\* speech on the first speech + 4 frames (none when speech = 0), then errors
HistFor(speech, total) ==
    [i \in 1..total |->
       IF speech = 0 THEN "nonspeech"
       ELSE IF i <= speech + 4 THEN "speech" ELSE "error"]

WindowFor(speech, total) ==
    [i \in 1..Min2(total, window_size) |-> speech > 0]

\* validate_wav at the end of its loop, for every pair of counts the loop
\* can end with
InitRatio ==
    /\ IdleUpload
    /\ files = {Path(1, "wav")}
    /\ pre = [files |-> files, nextId |-> 1]
    /\ audio_path = Path(1, "wav")
    /\ gpc = "loop"
    /\ gate_result = NoGateResult
    /\ oracle = FreeOracle
    /\ \E total \in 0..MaxTotal :
         \E speech \in 0..(IF total > 4 THEN total - 4 ELSE 0) :
           /\ total_frames = total
           /\ speech_frames = speech
           /\ frames_len = total * frame_size
           /\ start = total * frame_size
           /\ wavdata = Canonical(total * frame_size,
                                  IF total = 0 THEN {} ELSE {0, 1000})
           /\ hist = HistFor(speech, total)
           /\ window = WindowFor(speech, total)

RatioNext == ComputeRatio

SpecRatio == InitRatio /\ [][RatioNext]_vars

(***************************************************************************)
(* Properties.                                                              *)
(***************************************************************************)
\* C1: when a process_upload call fails after it has written files, no file
\* the call created (raw, canonical or any other) exists at the moment the
\* error is raised.
C1_NoOrphanAfterFailure == pc = "failed" => created \cap files = {}

ConverterFailed == ffmpeg_rc = 1

\* C2: when the converter exited non-zero, after the call has failed neither
\* <id>.wav nor <id>.raw of that call is in storage and get_audio_path(id)
\* answers not-found.
C2_ConverterFailureLeavesNothing ==
    (pc = "failed" /\ ConverterFailed) =>
        /\ Path(file_id, "wav") \notin files
        /\ Path(file_id, "raw") \notin files
        /\ (lookup.file_id = file_id => ~lookup.found)

C2_Witness ==
    /\ pc = "failed"
    /\ ConverterFailed
    /\ Path(file_id, "wav") \in created
    /\ Path(file_id, "raw") \in created
    /\ lookup.file_id = file_id

\* the exception of the running call was raised by base64.b64decode
DecodeFailed ==
    exc.msg \in {"Invalid audio data format",
                 "string argument should contain only ASCII characters"}

\* C3: when base64 decoding fails the call fails with an error and storage
\* is as before the call: no identifier was generated, no file created, and
\* neither the converter nor the gate (nor its classifier) was invoked.
C3_DecodeFailureTouchesNothing ==
    DecodeFailed =>
        /\ pc \in {"except", "failed"}
        /\ files = pre.files
        /\ nextId = pre.nextId
        /\ file_id = NoId
        /\ created = {}
        /\ ffmpeg_rc = -1
        /\ gpc = "off"
        /\ hist = <<>>
        /\ trace \in {<<"decode">>, <<"decode", "raise">>}
        /\ (pc = "failed" => error.kind = "ValueError")

C3_Witness ==
    /\ pc = "failed"
    /\ exc.msg = "Invalid audio data format"
    /\ pre.files # {}
    /\ files = pre.files

\* C4: after every call that returns normally both <id>.raw and <id>.wav of
\* the returned identifier exist.
C4_ReturnedHasRawAndWav ==
    pc = "returned" =>
        /\ Path(result.file_id, "raw") \in files
        /\ Path(result.file_id, "wav") \in files

\* C5: a call whose gate result is has_speech = False returns normally and
\* deletes nothing: every file it wrote is present when it returns.
C5_RejectedKeepsFiles ==
    [][(pc = "validating" /\ gpc = "done" /\ ~gate_result.has_speech) =>
          /\ pc' = "returned"
          /\ ~result'.has_speech
          /\ error' = NoExc
          /\ files' = files
          /\ created' \subseteq files']_vars

C5_Witness ==
    /\ pc = "returned"
    /\ ~result.has_speech
    /\ result.ratio = <<0, ConvFrames>>
    /\ created = {Path(file_id, "raw"), Path(file_id, "wav")}
    /\ created \subseteq files

\* the file handed to validate_wav exists and is canonical
CanonicalInput ==
    /\ audio_path \in files
    /\ wavdata.valid
    /\ IsCanonicalFormat(wavdata)

\* C6: for a canonical buffer whose samples all have absolute value below
\* 1000, validate_wav returns (False, 0.0) and the classifier is invoked on
\* no frame.
C6_QuietRejectedUnclassified ==
    (CanonicalInput /\ \A s \in wavdata.vals : -1000 < s /\ s < 1000) =>
        /\ hist = <<>>
        /\ gpc # "loop"
        /\ (gpc = "done" => gate_result = GateReturn(FALSE, Zero))

C6_Witness ==
    /\ gpc = "done"
    /\ CanonicalInput
    /\ wavdata.vals = {0, -999}
    /\ wavdata.nbytes >= window_size * frame_size
    /\ gate_result = GateReturn(FALSE, Zero)

\* C7: 0 <= speech_frames <= total_frames after every loop iteration, for
\* any classifier answers, and the returned ratio lies in [0, 1].
C7_SpeechWithinTotal ==
    /\ 0 <= speech_frames
    /\ speech_frames <= total_frames
    /\ (gpc = "done" =>
          /\ gate_result.ratio[2] > 0
          /\ 0 <= gate_result.ratio[1]
          /\ gate_result.ratio[1] <= gate_result.ratio[2])

C7_Witness ==
    /\ gpc = "done"
    /\ speech_frames >= 1
    /\ \E i, j, k \in 1..Len(hist) :
         hist[i] = "error" /\ hist[j] = "speech" /\ hist[k] = "nonspeech"

\* C8: acceptance is reported exactly when 100 * speech_frames >
\* 8 * total_frames; exactly 8% (8 of 100 frames) and total_frames = 0 are
\* rejected.
C8_AcceptedIffAboveEightPercent ==
    gpc = "done" =>
        (gate_result.has_speech <=> 100 * speech_frames > 8 * total_frames)

C8_Witness ==
    /\ gpc = "done"
    /\ speech_frames = 8
    /\ total_frames = 100
    /\ ~gate_result.has_speech

\* the answers of the frames that classified without error
Classified(h) == SelectSeq(h, LAMBDA a : a # "error")

\* number of "speech" among the last n entries of h
RECURSIVE SpeechAmongLast(_, _)
SpeechAmongLast(h, n) ==
    IF n = 0 \/ h = <<>> THEN 0
    ELSE (IF h[Len(h)] = "speech" THEN 1 ELSE 0)
         + SpeechAmongLast(SubSeq(h, 1, Len(h) - 1), n - 1)

\* C9: on each successfully classified frame speech_frames grows by one
\* exactly when, that frame included, at least five classifications are
\* recorded and at least 3 of the five most recent are speech; otherwise it
\* is unchanged.
C9_MajoritySmoothedCount ==
    [][(Len(hist') = Len(hist) + 1 /\ hist'[Len(hist')] # "error") =>
          speech_frames' = speech_frames +
              (IF /\ Len(Classified(hist')) >= 5
                  /\ SpeechAmongLast(Classified(hist'), 5) >= 3
               THEN 1 ELSE 0)]_vars

C9_Witness ==
    /\ speech_frames = 1
    /\ Len(hist) = 6
    /\ hist[1] = "speech"
    /\ hist[2] = "error"
    /\ hist[6] = "nonspeech"

\* C10: a complete frame whose classification raises is counted in neither
\* total_frames nor speech_frames: total_frames is the number of complete
\* frames classified without error.
C10_ErrorFramesNotCounted ==
    gpc \in {"loop", "done"} => total_frames = Len(Classified(hist))

\* the file passes the quietness check of line 41
PassedQuietness ==
    /\ CanonicalInput
    /\ wavdata.nbytes > 0
    /\ \E s \in wavdata.vals : Abs16(s) >= 1000

NoFrameError == \A i \in 1..Len(hist) : hist[i] # "error"

\* C11: for a canonical buffer of B bytes that passes the quietness check
\* and whose frames all classify without error, total_frames is
\* floor(B / 320): a trailing chunk shorter than 320 bytes is neither
\* classified nor counted, and fewer than 320 bytes give total_frames = 0
\* and ratio 0.0.
C11_TotalIsWholeFrames ==
    (gpc = "done" /\ PassedQuietness /\ NoFrameError) =>
        /\ total_frames = wavdata.nbytes \div 320
        /\ Len(hist) = wavdata.nbytes \div 320
        /\ (wavdata.nbytes < 320 =>
              /\ total_frames = 0
              /\ gate_result = GateReturn(FALSE, Zero))

C11_Witness ==
    /\ gpc = "done"
    /\ PassedQuietness
    /\ NoFrameError
    /\ wavdata.nbytes = 2 * 320 + 318
    /\ total_frames = 2

InTrace(e) == \E i \in 1..Len(trace) : trace[i] = e

\* C12: for a payload whose detected format is a supported input codec the
\* converter is still invoked before the voice-activity gate runs.
C12_SupportedStillConverted ==
    (mime_type \in DOMAIN SUPPORTED_MIME_TYPES /\ InTrace("gate")) =>
        InTrace("convert")

\* C13: when the converter exits non-zero the gate is never invoked, no
\* result tuple is returned, and the call ends in failure.
C13_NoGateAfterConverterFailure ==
    ConverterFailed =>
        /\ pc \in {"except", "failed"}
        /\ gpc = "off"
        /\ ~InTrace("gate")
        /\ hist = <<>>
        /\ result = NoResult

C13_Witness ==
    /\ pc = "failed"
    /\ ConverterFailed
    /\ error.msg = "Audio conversion failed"
    /\ ~InTrace("gate")


(***************************************************************************)
(* The same request twice, every collaborator answering the second call as *)
(* it answered the first.                                                   *)
(***************************************************************************)
VadSeqs ==
    {[i \in 1..ConvFrames |-> a] : a \in VadAnswers}
        \cup {[i \in 1..ConvFrames |-> IF i % 2 = 1 THEN "speech" ELSE "error"]}

ConvChoices ==
    {ConvChoice("ok", w, FALSE, "") : w \in ConvOutputs}
        \cup {ConvChoice("nonzero", NoWav, partial, text) :
                 partial \in BOOLEAN, text \in StderrTexts}
        \cup {ConvChoice("oserror", NoWav, FALSE, "")}

DebugChoices ==
    {DebugChoice(FALSE, TRUE), DebugChoice(TRUE, TRUE), DebugChoice(TRUE, FALSE)}

\* a decodable payload that libmagic does not know, converted to loud audio
\* in which every frame is speech
DefaultOracle ==
    [free |-> FALSE,
     input |-> [type |-> "str", data |-> <<"A", "A", "=", "=">>],
     mkdir |-> TRUE, raw |-> "ok", mime |-> "audio/mpeg",
     conv |-> ConvChoice("ok", Canonical(ConvFrames * frame_size, {0, 1000}),
                         FALSE, ""),
     keep |-> "ok", debug |-> DebugChoice(FALSE, TRUE),
     vad |-> [i \in 1..ConvFrames |-> "speech"]]

Oracles ==
    {[DefaultOracle EXCEPT !.input = i] : i \in Inputs}
        \cup {[DefaultOracle EXCEPT !.mkdir = FALSE]}
        \cup {[DefaultOracle EXCEPT !.raw = o] : o \in WriteOutcomes}
        \cup {[DefaultOracle EXCEPT !.mime = m, !.keep = k, !.debug = d] :
                 m \in MimeAnswers \cup {"raise"}, k \in WriteOutcomes,
                 d \in DebugChoices}
        \cup {[DefaultOracle EXCEPT !.conv = c, !.vad = v, !.debug = d] :
                 c \in ConvChoices, v \in VadSeqs, d \in DebugChoices}

InitPair ==
    /\ IdleUpload
    /\ IdleGate
    /\ files = {}
    /\ pre = [files |-> {}, nextId |-> 1]
    /\ wavdata = NoWav
    /\ gpc = "off"
    /\ audio_path = NoPath
    /\ oracle \in Oracles

PairNext ==
    \/ StartCall
    \/ Prepare
    \/ WriteRaw
    \/ DetectMime
    \/ StartConvert
    \/ Convert
    \/ KeepOriginal
    \/ DebugPlayback
    \/ CallValidate
    \/ WaveOpen
    \/ CheckFormat
    \/ CheckVolume
    \/ LoopIter
    \/ ComputeRatio
    \/ Return
    \/ Except
    \/ RouterReject
    \/ RouterLookup
    \/ RouterAnalyse
    \/ RouterError

SpecPair == InitPair /\ [][PairNext]_vars

(***************************************************************************)
(* The frame loop of validate_wav on clips whose frames the classifier     *)
(* answers in a fixed pattern: one run of speech amid non-speech.          *)
(***************************************************************************)
\* lines 45-46: frames of 10 ms, so this many frames in a second of audio
FramesPerSecond == 1000 \div frame_duration

\* n frames of which frames a .. a+l-1 (counted from 0) are speech
RunClip(n, a, l) ==
    [i \in 1..n |-> IF a < i /\ i <= a + l THEN "speech" ELSE "nonspeech"]

\* every run in every short clip, a second of speech in the middle of ten
\* seconds, and five seconds that are all speech
Clips ==
    {RunClip(n, a, l) : n \in 0..MaxClip, a \in 0..MaxClip, l \in 0..MaxClip}
        \cup {RunClip(10 * FramesPerSecond, a, FramesPerSecond) :
                 a \in {2, 450, 898}}
        \cup {RunClip(5 * FramesPerSecond, 0, 5 * FramesPerSecond)}

\* validate_wav past the quietness check on a loud canonical file, with or
\* without a trailing partial frame
InitClip ==
    /\ IdleUpload
    /\ files = {Path(1, "wav")}
    /\ pre = [files |-> files, nextId |-> 1]
    /\ audio_path = Path(1, "wav")
    /\ gpc = "loop"
    /\ gate_result = NoGateResult
    /\ start = 0
    /\ total_frames = 0
    /\ speech_frames = 0
    /\ window = <<>>
    /\ hist = <<>>
    /\ \E clip \in Clips, r \in {0, frame_size - 2} :
         /\ Len(clip) * frame_size + r > 0
         /\ oracle = [DefaultOracle EXCEPT !.vad = clip]
         /\ frames_len = Len(clip) * frame_size + r
         /\ wavdata = Canonical(frames_len, {0, 1000})

ClipNext ==
    \/ LoopIter
    \/ ComputeRatio

SpecClip == InitClip /\ [][ClipNext]_vars

\* C14: when the converter exits non-zero, the error raised to the caller
\* carries the converter's diagnostic text
C14_ErrorCarriesDiagnostic ==
    (pc = "failed" /\ ConverterFailed) => error.msg = ffmpeg_stderr

\* C15: get_audio_path(id) finds <id>.wav exactly when that file is stored,
\* and a lookup creates, changes and deletes nothing
LookedUp == lookup' # lookup /\ lookup'.file_id # NoId

C15_LookupIsPure ==
    [][LookedUp =>
         /\ lookup'.found <=> Path(lookup'.file_id, "wav") \in files
         /\ files' = files
         /\ nextId' = nextId
         /\ wavdata' = wavdata]_vars

C15_Witness ==
    /\ lookup = [file_id |-> 2, found |-> FALSE]
    /\ Path(1, "wav") \in files
    /\ rpc = "done"

C15_WitnessFound ==
    /\ lookup = [file_id |-> 1, found |-> TRUE]
    /\ Path(1, "wav") \in files
    /\ rpc = "done"

\* C16: a call draws an identifier no earlier call has used (also after
\* the earlier call's files were deleted), writes no path that existed when
\* it began, and its failure cleanup leaves the files of earlier calls alone
DrewId == file_id' # file_id /\ file_id' # NoId

WaitingOnConverter == pc = "converting" /\ calls < MaxCalls

C17_OthersProgressWhileConverting ==
    WaitingOnConverter => ENABLED StartCall

\* C18: within one call the converter is started at most once, a complete
\* frame is classified at most once, and a failure is raised at most once
Count(e) == Cardinality({i \in 1..Len(trace) : trace[i] = e})

C18_NothingRetried ==
    /\ Count("convert") <= 1
    /\ Count("raise") <= 1
    /\ Count("gate") <= 1
    /\ Len(hist) <= Min2(start, frames_len) \div frame_size
    /\ Len(hist) = total_frames

C18_Witness ==
    /\ gpc = "done"
    /\ Len(hist) = ConvFrames
    /\ Count("convert") = 1

C18_WitnessRaise ==
    /\ pc = "failed"
    /\ ConverterFailed
    /\ Count("convert") = 1
    /\ Count("raise") = 1

\* C20: the endpoint looks up and reads the artifact and calls the analysis
\* service only after process_upload returned is_valid = True; for
\* is_valid = False the response has no file_id and no analysis, and neither
\* get_audio_path nor the analysis service is touched
TouchedArtifact == InTrace("lookup") \/ InTrace("read") \/ InTrace("analyse")

C20_AnalysisOnlyAfterAcceptance ==
    /\ TouchedArtifact => (pc = "returned" /\ result.has_speech)
    /\ rpc = "read" => (pc = "returned" /\ result.has_speech)
    /\ (rpc = "done" /\ pc = "returned" /\ ~result.has_speech) =>
         /\ response = Response(200, NoId, result.size, FALSE, FALSE)
         /\ ~TouchedArtifact

C20_Witness ==
    /\ rpc = "done"
    /\ pc = "returned"
    /\ ~result.has_speech
    /\ response.status = 200
    /\ calls = 2

C20_WitnessAccepted ==
    /\ rpc = "done"
    /\ pc = "returned"
    /\ result.has_speech
    /\ response.analysis
    /\ InTrace("analyse")


\* C19: two calls with identical input and the same answers from the
\* format detector, the converter and the per-frame classifier return
\* different identifiers and the same outcome: both fail, or both return
\* the same size, has_speech and speech_ratio
SecondCallOver ==
    /\ ~oracle.free
    /\ calls >= 2
    /\ prev.kind # ""
    /\ pc \in {"returned", "failed"}

SameRatio(a, b) == a[1] * b[2] = b[1] * a[2] /\ (a[2] = 0 <=> b[2] = 0)

C19_SameInputSameOutcome ==
    SecondCallOver =>
        /\ prev.kind = pc
        /\ pc = "returned" =>
             /\ result.file_id # prev.file_id
             /\ result.size = prev.size
             /\ result.has_speech = prev.has_speech
             /\ SameRatio(result.ratio, prev.ratio)

C19_Witness ==
    /\ SecondCallOver
    /\ pc = "returned"
    /\ result.has_speech
    /\ prev.has_speech
    /\ result.file_id = 2
    /\ prev.file_id = 1
    /\ result.ratio[1] > 0

C19_WitnessFailed ==
    /\ SecondCallOver
    /\ pc = "failed"
    /\ prev.kind = "failed"
    /\ ConverterFailed


\* C21: a file that is not mono, not 16-bit or not 16000 Hz ends the
\* evaluation in a failure the caller can tell from an ordinary rejection;
\* it is not reported as the ordinary result (not accepted, ratio 0.0)
FormatViolated == gpc = "done" /\ wavdata.valid /\ ~IsCanonicalFormat(wavdata)

C21_FormatViolationIsFailure ==
    (FormatViolated /\ audio_path \in files) =>
        gate_result # GateReturn(FALSE, Zero)

\* C25: a classification error on one frame leaves the window and
\* speech_frames as they were, the loop goes on to every later complete
\* frame, and the call still returns a (has_speech, ratio) result
FrameErrored ==
    /\ gpc = "loop"
    /\ Len(hist') = Len(hist) + 1
    /\ hist'[Len(hist')] = "error"

LoopEnded == gpc = "loop" /\ gpc' = "done"

C25_FrameErrorTolerated ==
    [][/\ FrameErrored =>
            /\ window' = window
            /\ speech_frames' = speech_frames
            /\ gpc' = "loop"
            /\ gate_result' = NoGateResult
       /\ LoopEnded =>
            /\ Len(hist) = wavdata.nbytes \div frame_size
            /\ gate_result' =
                 GateReturn(HasSpeech(SpeechRatio(speech_frames, total_frames)),
                            SpeechRatio(speech_frames, total_frames))]_vars

C25_Witness ==
    /\ gpc = "done"
    /\ Len(hist) = MaxFrames
    /\ hist[1] = "error"
    /\ hist[MaxFrames] = "speech"
    /\ speech_frames >= 1
    /\ gate_result.has_speech

\* C27: a non-empty buffer holding a sample of magnitude 1000 or more, the
\* 16-bit minimum -32768 included, is never rejected as too quiet
TrueAbs(x) == IF x < 0 THEN -x ELSE x

LoudSample ==
    /\ CanonicalInput
    /\ wavdata.nbytes >= frame_size
    /\ \E x \in wavdata.vals : TrueAbs(x) >= QuietThreshold

C27_LoudNeverTooQuiet ==
    (gpc = "done" /\ LoudSample) => total_frames >= 1


\* C23: when the classifier reports speech on exactly one contiguous run of
\* L >= 3 frames that starts at frame index 2 or later and is followed by
\* at least 2 more frames, speech_frames = L; with 1000 frames and L = 100
\* the ratio is 0.10 and the clip is accepted
SpeechAt == {i \in 1..Len(hist) : hist[i] = "speech"}

RunLen == Cardinality(SpeechAt)

RunStart == (CHOOSE i \in SpeechAt : \A j \in SpeechAt : i <= j) - 1

OneInnerRun ==
    /\ gpc = "done"
    /\ NoFrameError
    /\ RunLen >= 3
    /\ SpeechAt = (RunStart + 1)..(RunStart + RunLen)
    /\ RunStart >= 2
    /\ RunStart + RunLen + 2 <= Len(hist)

C23_RunKeepsItsLength ==
    OneInnerRun =>
        /\ speech_frames = RunLen
        /\ (Len(hist) = 1000 /\ RunLen = 100) =>
             /\ gate_result.has_speech
             /\ gate_result.ratio[1] * 10 = gate_result.ratio[2]

C23_Witness ==
    /\ OneInnerRun
    /\ Len(hist) = 1000
    /\ RunLen = 100
    /\ RunStart = 450
    /\ speech_frames = 100
    /\ gate_result.has_speech

C23_WitnessShort ==
    /\ OneInnerRun
    /\ Len(hist) = 7
    /\ RunLen = 3
    /\ RunStart = 2

\* C24: when every one of N complete frames classifies as speech,
\* speech_frames = max(0, N - 4); 500 frames give ratio 496/500 and are
\* accepted, fewer than 5 frames give ratio 0 and are rejected
AllSpeech == gpc = "done" /\ \A i \in 1..Len(hist) : hist[i] = "speech"

C24_AllSpeechLosesFour ==
    (AllSpeech /\ Len(hist) = total_frames) =>
        /\ speech_frames = Max({0, total_frames - 4})
        /\ total_frames = 500 =>
             /\ gate_result.has_speech
             /\ gate_result.ratio[1] * 500 = 496 * gate_result.ratio[2]
             /\ gate_result.ratio[2] # 0
        /\ total_frames < 5 =>
             /\ ~gate_result.has_speech
             /\ gate_result.ratio[1] = 0

C24_Witness ==
    /\ AllSpeech
    /\ total_frames = 500
    /\ speech_frames = 496
    /\ gate_result.has_speech

C24_WitnessShort ==
    /\ AllSpeech
    /\ total_frames = 4
    /\ speech_frames = 0
    /\ ~gate_result.has_speech


\* C22: the error raised when base64 decoding fails is of a kind distinct
\* from the error raised when the converter fails
ConverterError == Reraise(Exc("ValueError", "Audio conversion failed"))

Pos(e) == CHOOSE i \in 1..Len(trace) : trace[i] = e

Before(a, b) == InTrace(b) => (InTrace(a) /\ Pos(a) < Pos(b))

C26_StepsInSpecOrder ==
    /\ Before("decode", "detect")
    /\ Before("detect", "write_raw")
    /\ Before("write_raw", "convert")
    /\ Before("convert", "gate")
    /\ Before("gate", "return")

\* C28: when process_upload returns has_speech = True, <id>.wav was produced
\* by the converter in that call and exists, so the get_audio_path(id) that
\* follows in the endpoint does not fail with not-found
ReturnedAccepted == pc = "returned" /\ result.has_speech

C28_AcceptedHasCanonicalFile ==
    ReturnedAccepted =>
        /\ InTrace("convert")
        /\ ffmpeg_rc = 0
        /\ Path(result.file_id, "wav") \in created
        /\ Path(result.file_id, "wav") \in files
        /\ rpc = "read" => lookup = [file_id |-> result.file_id, found |-> TRUE]
        /\ InTrace("lookup") => (rpc = "read" \/ InTrace("read"))

C28_Witness ==
    /\ ReturnedAccepted
    /\ rpc = "read"
    /\ lookup = [file_id |-> 2, found |-> TRUE]
    /\ Path(2, "wav") \in created

\* C29: a bytes input always yields a decoded payload (valid UTF-8 is
\* base64-decoded like the string, anything else is used as it is), so the
\* call goes on to write the raw artifact and does not fail at decoding
BytesCallFailed ==
    /\ ~oracle.free
    /\ oracle.input.type = "bytes"
    /\ oracle.mkdir
    /\ pc = "failed"

C29_BytesInputProceeds == BytesCallFailed => InTrace("write_raw")

\* C30: for a detected MIME type in SUPPORTED_MIME_TYPES the call writes
\* <id>.raw and <id>.<ext>, never creates <id>.wav, runs the gate with no
\* canonical file and returns has_speech = False, speech_ratio = 0.0
SupportedCall == mime_type \in DOMAIN SUPPORTED_MIME_TYPES

=============================================================================
